---- MODULE Spec2Model ----
(***************************************************************************)
(* Model of the recruitment record pipeline: the SQLite-backed dedup cache *)
(* (processors/deduplicator.py), the Feishu batch client                   *)
(* (feishu/client.py), the reconciler (feishu/bitable.py) and the crawler  *)
(* job that chains them (scheduler/jobs.py).                               *)
(*                                                                         *)
(* Time is counted in ticks; TicksPerDay ticks make a calendar day and     *)
(* DaysInMonth days make a month (the model's calendar is scaled down, the *)
(* rule that datetime.replace(day=k) needs 1 <= k <= month length is kept).*)
(* An MD5 digest is modelled by the string it digests (no collisions).     *)
(***************************************************************************)
EXTENDS Integers, Sequences, FiniteSets, TLC

\* ------------------------------------------------------------------ bounds
MaxTime == 3
TicksPerDay == 2
DaysInMonth == 2
MaxDays == 1
MaxBatch == 2
MaxStat == 0
MaxRemote == 2
MaxQueue == 1001
MaxText == 2
MaxKeys == 3
MaxCleaned == 1

\* --------------------------------------------------------------- constants
NoId == 0
batch_size == 500

\* now     the clock datetime.now() reads, in ticks
\* cache   the rows of the SQLite table records: record_hash, first_seen,
\*         last_seen, feishu_record_id (company_name, position, publish_date
\*         and source_url are written by the INSERT and never read or
\*         updated, they are left out)
\* stats   the counters of the Deduplicator instance
\* remote  the rows of the Feishu table, in the order get_all_records lists
\*         them: record_id and the three fields the duplicate key is built of
\* render  how the Feishu table gives back a field it was sent: "echo", the
\*         value as it was sent, or "plain", the text or the date inside it
\* cleaner_stats  the counters of the DataCleaner instance
\* last    the call that has just returned to its caller: its arguments, the
\*         cache and the cleaner counters it found, and its results
VARIABLES now, cache, stats, remote, render, cleaner_stats, last

vars == <<now, cache, stats, remote, render, cleaner_stats, last>>

\* ------------------------------------------------------------------ records
Companies == {"A", "B"}
Positions == {"dev"}
PublishDates == 0 .. 1
Records == [company_name : Companies, position : Positions, publish_date : PublishDates]

Day(t) == t \div TicksPerDay

DayOfMonth(t) == (Day(t) % DaysInMonth) + 1

\* value.strftime("%Y-%m-%d"): the calendar day, the time of day is dropped
StrfDate(t) == Day(t)

GenerateHash(record) ==
    <<record.company_name, record.position, StrfDate(record.publish_date)>>

Batches == UNION {[1 .. n -> Records] : n \in 0 .. MaxBatch}

Ids == {1, 2}

ZeroStats == [checked |-> 0, duplicates |-> 0, unique |-> 0]

ZeroResult == [created |-> 0, updated |-> 0, failed |-> 0, skipped |-> 0]

\* the counters of a new DataCleaner
ZeroCleanerStats == [processed |-> 0, cleaned |-> 0, invalid |-> 0]

\* the record of a call: what it was given, the cache it found (before) and
\* what it returned; "init" when no call is pending
Idle ==
    [op |-> "init", records |-> <<>>, id |-> NoId, days |-> 0, before |-> {},
     ret |-> FALSE, raised |-> FALSE, out |-> <<>>, lookups |-> <<>>,
     existing |-> <<>>, to_create |-> <<>>, to_update |-> <<>>,
     calls |-> <<>>, result |-> ZeroResult, args |-> <<>>,
     counters |-> ZeroCleanerStats, rejected |-> 0]

Call(op) == [Idle EXCEPT !.op = op, !.before = cache, !.counters = cleaner_stats]

\* no call is pending: the caller has taken the result of the previous one
Ready == last.op = "init"

\* ---------------------------------------------------------------- the cache
CacheHashes(c) == {row.record_hash : row \in c}

InCache(c, h) == \E row \in c : row.record_hash = h

\* is_duplicate with the test of the fetched row inverted
IsDupResultInverted(c, st, record) ==
    LET is_dup == ~InCache(c, GenerateHash(record))
    IN  [ret |-> is_dup,
         stats |-> [checked |-> st.checked + 1,
                    duplicates |-> st.duplicates + (IF is_dup THEN 1 ELSE 0),
                    unique |-> st.unique + (IF is_dup THEN 0 ELSE 1)]]

\* is_duplicate: the SELECT and the three counters
IsDupResult(c, st, record) ==
    LET is_dup == InCache(c, GenerateHash(record))
    IN  [ret |-> is_dup,
         stats |-> [checked |-> st.checked + 1,
                    duplicates |-> st.duplicates + (IF is_dup THEN 1 ELSE 0),
                    unique |-> st.unique + (IF is_dup THEN 0 ELSE 1)]]

StatsRoom == stats.checked + stats.duplicates <= MaxStat

IsDuplicate(record) ==
    /\ Ready
    /\ StatsRoom
    /\ LET r == IsDupResult(cache, stats, record)
       IN  /\ stats' = r.stats
           /\ last' = [Call("is_duplicate") EXCEPT !.records = <<record>>,
                                   !.ret = r.ret,
                                   !.lookups = <<GenerateHash(record)>>]
    /\ UNCHANGED <<now, cache, remote, render, cleaner_stats>>

\* add_record on a table without the UNIQUE constraint: always the INSERT
AddRecordRowsNoConflict(c, t, record, feishu_record_id) ==
    c \cup {[record_hash |-> GenerateHash(record), first_seen |-> t,
              last_seen |-> t, feishu_record_id |-> feishu_record_id]}

\* add_record as INSERT OR REPLACE: a conflict replaces the whole row
AddRecordRowsReplace(c, t, record, feishu_record_id) ==
    {row \in c : row.record_hash # GenerateHash(record)}
    \cup {[record_hash |-> GenerateHash(record), first_seen |-> t,
            last_seen |-> t, feishu_record_id |-> feishu_record_id]}

\* INSERT; on the UNIQUE(record_hash) conflict the UPDATE of the except branch
AddRecordRows(c, t, record, feishu_record_id) ==
    LET h == GenerateHash(record)
    IN  IF InCache(c, h)
        THEN {IF row.record_hash = h
              THEN [row EXCEPT !.last_seen = t, !.feishu_record_id = feishu_record_id]
              ELSE row : row \in c}
        ELSE c \cup {[record_hash |-> h, first_seen |-> t, last_seen |-> t,
                      feishu_record_id |-> feishu_record_id]}

AddRecord(record, feishu_record_id) ==
    /\ Ready
    /\ cache' = AddRecordRows(cache, now, record, feishu_record_id)
    /\ last' = [Call("add_record") EXCEPT !.records = <<record>>,
                            !.id = feishu_record_id]
    /\ UNCHANGED <<now, stats, remote, render, cleaner_stats>>

MarkSynced(record, feishu_record_id) ==
    /\ Ready
    /\ cache' = {IF row.record_hash = GenerateHash(record)
                 THEN [row EXCEPT !.feishu_record_id = feishu_record_id]
                 ELSE row : row \in cache}
    /\ last' = [Call("mark_synced") EXCEPT !.records = <<record>>,
                            !.id = feishu_record_id]
    /\ UNCHANGED <<now, stats, remote, render, cleaner_stats>>

\* the loop of filter_duplicates: seen_hashes, then is_duplicate, then append
RECURSIVE FilterLoop(_, _, _, _)
FilterLoop(c, records, i, acc) ==
    IF i > Len(records) THEN acc
    ELSE LET record_hash == GenerateHash(records[i])
         IN  IF record_hash \in acc.seen_hashes
             THEN FilterLoop(c, records, i + 1,
                             [acc EXCEPT !.stats.duplicates = @ + 1])
             ELSE LET r == IsDupResult(c, acc.stats, records[i])
                      checked == [acc EXCEPT !.stats = r.stats,
                                             !.lookups = Append(@, record_hash)]
                  IN  IF r.ret
                      THEN FilterLoop(c, records, i + 1, checked)
                      ELSE FilterLoop(c, records, i + 1,
                                      [checked EXCEPT
                                          !.seen_hashes = @ \cup {record_hash},
                                          !.unique_records = Append(@, records[i])])

\* filter_duplicates without the seen_hashes test
FilterResultNoSeen(c, st, records) ==
    LET kept == SelectSeq(records, LAMBDA r : ~InCache(c, GenerateHash(r)))
    IN  [unique_records |-> kept, seen_hashes |-> {},
         stats |-> [st EXCEPT !.checked = @ + Len(records),
                              !.duplicates = @ + Len(records) - Len(kept),
                              !.unique = @ + Len(kept)],
         lookups |-> [i \in 1 .. Len(records) |-> GenerateHash(records[i])]]

FilterResult(c, st, records) ==
    FilterLoop(c, records, 1,
               [unique_records |-> <<>>, seen_hashes |-> {}, stats |-> st,
                lookups |-> <<>>])

FilterDuplicates(records) ==
    /\ Ready
    /\ StatsRoom
    /\ LET r == FilterResult(cache, stats, records)
       IN  /\ stats' = r.stats
           /\ last' = [Call("filter_duplicates") EXCEPT !.records = records,
                                   !.out = r.unique_records,
                                   !.lookups = r.lookups]
    /\ UNCHANGED <<now, cache, remote, render, cleaner_stats>>

\* cutoff = today at midnight, then cutoff.replace(day=cutoff.day - days):
\* datetime.replace raises ValueError unless the new day is a day of the month
CleanupRaises(t, days) ==
    DayOfMonth(t) - days < 1 \/ DayOfMonth(t) - days > DaysInMonth

Cutoff(t, days) == (Day(t) - days) * TicksPerDay

CleanupOldRecords(days) ==
    /\ Ready
    /\ IF CleanupRaises(now, days)
       THEN cache' = cache
       ELSE cache' = {row \in cache : ~(row.first_seen < Cutoff(now, days))}
    /\ last' = [Call("cleanup_old_records") EXCEPT !.days = days,
                            !.raised = CleanupRaises(now, days)]
    /\ UNCHANGED <<now, stats, remote, render, cleaner_stats>>

ResetStats ==
    /\ Ready
    /\ stats # ZeroStats
    /\ stats' = ZeroStats
    /\ UNCHANGED <<now, cache, last, remote, render, cleaner_stats>>

\* the clock read by datetime.now()
Tick ==
    /\ Ready
    /\ now < MaxTime
    /\ now' = now + 1
    /\ UNCHANGED <<cache, stats, last, remote, render, cleaner_stats>>

\* the caller takes the result; the record of the call is forgotten
Return ==
    /\ ~Ready
    /\ last' = Idle
    /\ UNCHANGED <<now, cache, stats, remote, render, cleaner_stats>>

DedupInit ==
    /\ now = 0
    /\ cache = {}
    /\ remote = <<>>
    /\ render = "echo"
    /\ cleaner_stats = ZeroCleanerStats
    /\ stats = ZeroStats
    /\ last = Idle

DedupNext ==
    \/ Ready /\ \E record \in Records : IsDuplicate(record)
    \/ Ready /\ \E record \in Records, id \in {NoId} \cup Ids : AddRecord(record, id)
    \/ Ready /\ StatsRoom /\ \E records \in Batches : FilterDuplicates(records)
    \/ Ready /\ \E record \in Records, id \in Ids : MarkSynced(record, id)
    \/ Ready /\ \E days \in 0 .. MaxDays : CleanupOldRecords(days)
    \/ ResetStats
    \/ Tick
    \/ Return

SpecDedup == DedupInit /\ [][DedupNext]_vars

\* ------------------------------------------------------- the Feishu client
Min(a, b) == IF a < b THEN a ELSE b

\* the slice taken one item too long
SliceInclusive(s, a, b) == SubSeq(s, a + 1, Min(b + 1, Len(s)))

\* the Python slice s[a:b]
Slice(s, a, b) == SubSeq(s, a + 1, Min(b, Len(s)))

\* for i in range(0, len(records), batch_size): batch = records[i : i + batch_size]
RECURSIVE BatchLoop(_, _, _)
BatchLoop(records, i, batches) ==
    IF i >= Len(records) THEN batches
    ELSE BatchLoop(records, i + batch_size,
                   Append(batches, Slice(records, i, i + batch_size)))

\* the POST requests of batch_create_records / batch_update_records, in order
BatchRequests(endpoint, records) ==
    LET batches == BatchLoop(records, 0, <<>>)
    IN  [k \in 1 .. Len(batches) |-> [endpoint |-> endpoint, records |-> batches[k]]]

\* the requests that are sent when the fail_at-th one raises (0: none raises)
Sent(requests, fail_at) ==
    IF fail_at = 0 THEN requests ELSE SubSeq(requests, 1, Min(fail_at, Len(requests)))

\* those of them the store answered
Answered(requests, fail_at) ==
    IF fail_at = 0 THEN requests ELSE SubSeq(requests, 1, Min(fail_at, Len(requests) + 1) - 1)

Raises(requests, fail_at) == fail_at # 0 /\ fail_at <= Len(requests)

\* a queue of n placeholder items
Items(n) == [i \in 1 .. n |-> i]

BatchCreateRecords(records, fail_at) ==
    /\ Ready
    /\ LET requests == BatchRequests("batch_create", records)
       IN  last' = [Call("batch_create_records") EXCEPT
                       !.to_create = records,
                       !.calls = Sent(requests, fail_at),
                       !.raised = Raises(requests, fail_at)]
    /\ UNCHANGED <<now, cache, stats, remote, render, cleaner_stats>>

BatchUpdateRecords(updates, fail_at) ==
    /\ Ready
    /\ LET requests == BatchRequests("batch_update", updates)
       IN  last' = [Call("batch_update_records") EXCEPT
                       !.to_update = updates,
                       !.calls = Sent(requests, fail_at),
                       !.raised = Raises(requests, fail_at)]
    /\ UNCHANGED <<now, cache, stats, remote, render, cleaner_stats>>

ChunkInit ==
    /\ now = 0
    /\ cache = {}
    /\ stats = ZeroStats
    /\ remote = <<>>
    /\ render = "echo"
    /\ cleaner_stats = ZeroCleanerStats
    /\ last = Idle

ChunkNext ==
    \/ /\ Ready
       /\ \E n \in 0 .. MaxQueue :
              \E fail_at \in 0 .. Len(BatchRequests("batch_create", Items(n))) :
                  BatchCreateRecords(Items(n), fail_at)
    \/ /\ Ready
       /\ \E n \in 0 .. MaxQueue :
              \E fail_at \in 0 .. Len(BatchRequests("batch_update", Items(n))) :
                  BatchUpdateRecords(Items(n), fail_at)
    \/ Return

SpecChunk == ChunkInit /\ [][ChunkNext]_vars

\* ---------------------------------------------------------- the reconciler
\* A text as it is rendered into a key: <<form, value>>.  "str" is a plain
\* string, "datetime" is str(datetime) (date and time of day), "date" is
\* strftime("%Y-%m-%d"), "dict" is the printed form of a dict that wraps the
\* value.

\* _get_duplicate_key: f"{company}|{position}|{date}" of the record's own values
GetDuplicateKey(data) ==
    <<<<"str", data.company_name>>, <<"str", data.position>>,
      <<"datetime", data.publish_date>>>>

\* get_feishu_field_value: {"field_id": ..., "text": str(value)} for a text
\* field, {"field_id": ..., "date": value.strftime("%Y-%m-%d")} for a date
GetFeishuFieldValue(internal_field, value) ==
    IF internal_field = "publish_date"
    THEN <<"dict", StrfDate(value)>>
    ELSE <<"dict", value>>

\* build_feishu_record(data).get("fields", {}), the three key fields of it
BuildFeishuRecord(data) ==
    [company_name |-> GetFeishuFieldValue("company_name", data.company_name),
     position |-> GetFeishuFieldValue("position", data.position),
     publish_date |-> GetFeishuFieldValue("publish_date", data.publish_date)]

\* the key _build_existing_map gives a remote row
RowKey(row) == <<row.fields.company_name, row.fields.position, row.fields.publish_date>>

\* the existing map keyed by the company alone
ExistingIndexByCompany(rows, key) ==
    LET hits == {i \in 1 .. Len(rows) : RowKey(rows[i])[1] = key[1]}
    IN  IF hits = {} THEN 0 ELSE CHOOSE i \in hits : \A j \in hits : j <= i

\* existing_map.get(key): the last row with the key wins; 0 when there is none
ExistingIndex(rows, key) ==
    LET hits == {i \in 1 .. Len(rows) : RowKey(rows[i]) = key}
    IN  IF hits = {} THEN 0 ELSE CHOOSE i \in hits : \A j \in hits : j <= i

\* the loop of add_recruitments over data_list: a record whose key has a row
\* is appended to records_to_update with the record_id of the row, any other
\* record to records_to_create; each queue keeps the order of data_list
Partition(rows, data_list) ==
    LET existing == [i \in 1 .. Len(data_list) |->
                        ExistingIndex(rows, GetDuplicateKey(data_list[i]))]
        indices == [i \in 1 .. Len(data_list) |-> i]
        to_update == SelectSeq(indices, LAMBDA i : existing[i] # 0)
        to_create == SelectSeq(indices, LAMBDA i : existing[i] = 0)
    IN  [records_to_create |->
             [j \in 1 .. Len(to_create) |-> BuildFeishuRecord(data_list[to_create[j]])],
         records_to_update |->
             [j \in 1 .. Len(to_update) |->
                 [record_id |-> rows[existing[to_update[j]]].record_id,
                  fields |-> BuildFeishuRecord(data_list[to_update[j]])]]]

Renderings == {"echo", "plain"}

\* the fields of a row as a later read lists them
Stored(fields) ==
    IF render = "echo" THEN fields
    ELSE [company_name |-> <<"str", fields.company_name[2]>>,
          position |-> <<"str", fields.position[2]>>,
          publish_date |-> <<"date", fields.publish_date[2]>>]

\* the store after a batch_create request: new rows with fresh record ids
Created(rows, fields_list) ==
    rows \o [k \in 1 .. Len(fields_list) |->
                [record_id |-> Len(rows) + k, fields |-> Stored(fields_list[k])]]

\* the store after a batch_update request
Updated(rows, updates) ==
    [i \in 1 .. Len(rows) |->
        LET hits == {k \in 1 .. Len(updates) : updates[k].record_id = rows[i].record_id}
        IN  IF hits = {} THEN rows[i]
            ELSE [rows[i] EXCEPT !.fields =
                     Stored(updates[CHOOSE k \in hits : \A j \in hits : j <= k].fields)]]

RECURSIVE Store(_, _, _)
Store(rows, requests, k) ==
    IF k > Len(requests) THEN rows
    ELSE Store(IF requests[k].endpoint = "batch_create"
               THEN Created(rows, requests[k].records)
               ELSE IF requests[k].endpoint = "batch_update"
               THEN Updated(rows, requests[k].records)
               ELSE rows,
               requests, k + 1)

\* add_recruitments with a try/except of its own around each batch call: a
\* create chunk that raises ends the creates, the updates are still sent
AddRecruitmentsResultContinue(rows, data_list, fail_at) ==
    LET fetch == <<[endpoint |-> "records", records |-> <<>>]>>
        queues == Partition(rows, data_list)
        creates == IF queues.records_to_create # <<>>
                   THEN BatchRequests("batch_create", queues.records_to_create)
                   ELSE <<>>
        updates == IF queues.records_to_update # <<>>
                   THEN BatchRequests("batch_update", queues.records_to_update)
                   ELSE <<>>
        requests == IF fail_at = 1 THEN fetch ELSE fetch \o creates \o updates
        raised == Raises(requests, fail_at)
        in_creates == raised /\ fail_at > 1 /\ fail_at <= 1 + Len(creates)
        sent == IF in_creates THEN SubSeq(requests, 1, fail_at) \o updates
                ELSE Sent(requests, fail_at)
        answered == IF in_creates THEN SubSeq(requests, 1, fail_at - 1) \o updates
                    ELSE Answered(requests, fail_at)
    IN  [existing |-> rows,
         to_create |-> IF fail_at = 1 THEN <<>> ELSE queues.records_to_create,
         to_update |-> IF fail_at = 1 THEN <<>> ELSE queues.records_to_update,
         calls |-> sent,
         raised |-> raised,
         rows |-> Store(rows, answered, 1),
         result |-> [created |-> 0,
                     updated |-> IF raised /\ ~in_creates THEN 0
                                 ELSE Len(queues.records_to_update),
                     failed |-> IF raised THEN Len(data_list) ELSE 0,
                     skipped |-> 0]]

\* add_recruitments: the fetch, the partition, the two batch calls and the
\* except branch.  fail_at numbers the remote request that raises (0: none).
\* A request that raises leaves the store as it was.
AddRecruitmentsResult(rows, data_list, fail_at) ==
    LET fetch == <<[endpoint |-> "records", records |-> <<>>]>>
        queues == Partition(rows, data_list)
        creates == IF queues.records_to_create # <<>>
                   THEN BatchRequests("batch_create", queues.records_to_create)
                   ELSE <<>>
        updates == IF queues.records_to_update # <<>>
                   THEN BatchRequests("batch_update", queues.records_to_update)
                   ELSE <<>>
        requests == IF fail_at = 1 THEN fetch ELSE fetch \o creates \o updates
        raised == Raises(requests, fail_at)
        created == queues.records_to_create # <<>>
                   /\ (~raised \/ fail_at > 1 + Len(creates))
        updated == queues.records_to_update # <<>> /\ ~raised
    IN  [existing |-> rows,
         to_create |-> IF fail_at = 1 THEN <<>> ELSE queues.records_to_create,
         to_update |-> IF fail_at = 1 THEN <<>> ELSE queues.records_to_update,
         calls |-> Sent(requests, fail_at),
         raised |-> raised,
         rows |-> Store(rows, Answered(requests, fail_at), 1),
         result |-> [created |-> IF created THEN Len(queues.records_to_create) ELSE 0,
                     updated |-> IF updated THEN Len(queues.records_to_update) ELSE 0,
                     failed |-> IF raised THEN Len(data_list) ELSE 0,
                     skipped |-> 0]]

\* the number of remote requests add_recruitments plans for data_list
Planned(rows, data_list) == Len(AddRecruitmentsResult(rows, data_list, 0).calls)

AddRecruitments(data_list, fail_at) ==
    /\ Ready
    /\ Len(remote) <= MaxRemote
    /\ \E r \in {AddRecruitmentsResult(remote, data_list, fail_at)} :
           /\ remote' = r.rows
           /\ last' = [Call("add_recruitments") EXCEPT
                          !.records = data_list, !.existing = r.existing,
                          !.to_create = r.to_create, !.to_update = r.to_update,
                          !.calls = r.calls, !.raised = r.raised,
                          !.result = r.result]
    /\ UNCHANGED <<now, cache, stats, render, cleaner_stats>>

\* the requests the store accepted when it answered the coded-th one with a
\* non-zero code (0: none)
AcceptedRequests(requests, coded) ==
    IF coded = 0 THEN requests
    ELSE SubSeq(requests, 1, coded - 1) \o SubSeq(requests, coded + 1, Len(requests))

\* add_recruitments when no request raises and the store answers the coded-th
\* request, a create or an update chunk, with a non-zero code: _make_request
\* logs a warning and returns the answer, the batch loop goes on, and the
\* counts are the lengths of the queues
AddRecruitmentsCodedResult(rows, data_list, coded) ==
    LET fetch == <<[endpoint |-> "records", records |-> <<>>]>>
        queues == Partition(rows, data_list)
        creates == IF queues.records_to_create # <<>>
                   THEN BatchRequests("batch_create", queues.records_to_create)
                   ELSE <<>>
        updates == IF queues.records_to_update # <<>>
                   THEN BatchRequests("batch_update", queues.records_to_update)
                   ELSE <<>>
        requests == fetch \o creates \o updates
    IN  [existing |-> rows,
         to_create |-> queues.records_to_create,
         to_update |-> queues.records_to_update,
         calls |-> requests,
         raised |-> FALSE,
         rows |-> Store(rows, AcceptedRequests(requests, coded), 1),
         result |-> [created |-> Len(queues.records_to_create),
                     updated |-> Len(queues.records_to_update),
                     failed |-> 0,
                     skipped |-> 0]]

AddRecruitmentsCoded(data_list, coded) ==
    /\ Ready
    /\ Len(remote) <= MaxRemote
    /\ \E r \in {AddRecruitmentsCodedResult(remote, data_list, coded)} :
           /\ remote' = r.rows
           /\ last' = [Call("add_recruitments") EXCEPT
                          !.records = data_list, !.existing = r.existing,
                          !.to_create = r.to_create, !.to_update = r.to_update,
                          !.calls = r.calls, !.raised = r.raised,
                          !.result = r.result, !.rejected = coded]
    /\ UNCHANGED <<now, cache, stats, render, cleaner_stats>>

\* add_recruitment: build_feishu_record, _find_duplicate (a fetch of all rows
\* and the existing map), then _update_record of the row found or
\* create_record; every exception ends in "return None".  fail_at numbers the
\* remote request that raises (0: none).
AddRecruitmentResult(rows, data, fail_at) ==
    LET fetch == [endpoint |-> "records", records |-> <<>>]
        existing == ExistingIndex(rows, GetDuplicateKey(data))
        fields == BuildFeishuRecord(data)
        write == IF existing # 0
                 THEN [endpoint |-> "update_record",
                       records |-> <<[record_id |-> rows[existing].record_id,
                                      fields |-> fields]>>]
                 ELSE [endpoint |-> "create_record", records |-> <<fields>>]
        requests == <<fetch, write>>
    IN  [existing |-> rows,
         calls |-> Sent(requests, fail_at),
         raised |-> Raises(requests, fail_at),
         rows |-> IF fail_at # 0 THEN rows
                  ELSE IF existing # 0 THEN Updated(rows, write.records)
                  ELSE Created(rows, write.records),
         id |-> IF fail_at # 0 THEN NoId
                ELSE IF existing # 0 THEN rows[existing].record_id
                ELSE Len(rows) + 1]

AddRecruitment(data, fail_at) ==
    /\ Ready
    /\ Len(remote) <= MaxRemote
    /\ \E r \in {AddRecruitmentResult(remote, data, fail_at)} :
           /\ remote' = r.rows
           /\ last' = [Call("add_recruitment") EXCEPT
                          !.records = <<data>>, !.existing = r.existing,
                          !.calls = r.calls, !.raised = r.raised, !.id = r.id]
    /\ UNCHANGED <<now, cache, stats, render, cleaner_stats>>

\* rows the table holds that this program did not write: plain values
ForeignRows == {[company_name |-> <<"str", r.company_name>>,
                 position |-> <<"str", r.position>>,
                 publish_date |-> <<"datetime", r.publish_date>>] : r \in Records}

InitialStores ==
    UNION {{[i \in 1 .. n |-> [record_id |-> i, fields |-> f[i]]] :
               f \in [1 .. n -> ForeignRows]} : n \in 0 .. MaxRemote}

ReconInit ==
    /\ now = 0
    /\ cache = {}
    /\ stats = ZeroStats
    /\ remote \in InitialStores
    /\ render \in Renderings
    /\ cleaner_stats = ZeroCleanerStats
    /\ last = Idle

\* lists longer than one chunk: k records r1, then r2 up to batch_size + 2
BulkBatches ==
    {[i \in 1 .. batch_size + 2 |-> IF i <= k THEN r1 ELSE r2] :
        r1 \in {r \in Records : r.publish_date = 0},
        r2 \in {r \in Records : r.publish_date = 0},
        k \in {1, batch_size + 1}}

ReconNext ==
    \/ /\ Ready
       /\ \E data_list \in Batches :
              \E fail_at \in 0 .. Planned(remote, data_list) :
                  AddRecruitments(data_list, fail_at)
    \/ /\ Ready
       /\ Len(remote) < MaxRemote
       /\ \E data_list \in BulkBatches :
              \E fail_at \in 0 .. Planned(remote, data_list) :
                  AddRecruitments(data_list, fail_at)
    \/ /\ Ready
       /\ Len(remote) <= MaxRemote
       /\ \E data_list \in Batches :
              \E coded \in 2 .. Planned(remote, data_list) :
                  AddRecruitmentsCoded(data_list, coded)
    \/ /\ Ready
       /\ \E data \in Records, fail_at \in 0 .. 2 : AddRecruitment(data, fail_at)
    \/ Return

SpecRecon == ReconInit /\ [][ReconNext]_vars

\* ------------------------------------------------------------ the crawler job
\* for record in unique_records: self.deduplicator.add_record(record)
RECURSIVE AddAll(_, _, _, _)
AddAll(c, t, records, i) ==
    IF i > Len(records) THEN c
    ELSE AddAll(AddRecordRows(c, t, records[i], NoId), t, records, i + 1)

\* CrawlerJob.run from the cleaned records on: filter_duplicates, the return
\* when nothing is unique, sync_data (add_recruitments, which raises nothing),
\* then add_record of every unique record
RunResult(c, st, rows, t, cleaned_records, fail_at) ==
    LET f == FilterResult(c, st, cleaned_records)
        unique_records == f.unique_records
        sync == AddRecruitmentsResult(rows, unique_records, fail_at)
    IN  IF unique_records = <<>>
        THEN [cache |-> c, stats |-> f.stats, rows |-> rows, unique_records |-> <<>>,
              synced |-> FALSE, calls |-> <<>>, raised |-> FALSE, result |-> ZeroResult]
        ELSE [cache |-> AddAll(c, t, unique_records, 1), stats |-> f.stats,
              rows |-> sync.rows, unique_records |-> unique_records,
              synced |-> TRUE, calls |-> sync.calls, raised |-> sync.raised,
              result |-> sync.result]

Run(cleaned_records, fail_at) ==
    /\ Ready
    /\ StatsRoom
    /\ Len(remote) <= MaxRemote
    /\ \E r \in {RunResult(cache, stats, remote, now, cleaned_records, fail_at)} :
           /\ cache' = r.cache
           /\ stats' = r.stats
           /\ remote' = r.rows
           /\ last' = [Call("run") EXCEPT
                          !.records = cleaned_records, !.out = r.unique_records,
                          !.existing = remote, !.ret = r.synced,
                          !.calls = r.calls, !.raised = r.raised,
                          !.result = r.result]
    /\ UNCHANGED <<now, render, cleaner_stats>>

\* Deduplicator(): a new instance on the same cache file, its counters at zero
NewDeduplicator ==
    /\ Ready
    /\ stats # ZeroStats
    /\ stats' = ZeroStats
    /\ UNCHANGED <<now, cache, remote, last, render, cleaner_stats>>

JobInit ==
    /\ now = 0
    /\ cache = {}
    /\ stats = ZeroStats
    /\ remote \in {store \in InitialStores : Len(store) <= 1}
    /\ render \in Renderings
    /\ cleaner_stats = ZeroCleanerStats
    /\ last = Idle

JobNext ==
    \/ /\ Ready
       /\ StatsRoom
       /\ \E cleaned_records \in Batches :
              \E fail_at \in 0 .. Planned(remote,
                                          FilterResult(cache, stats, cleaned_records).unique_records) :
                  Run(cleaned_records, fail_at)
    \/ NewDeduplicator
    \/ Tick
    \/ Return

SpecJob == JobInit /\ [][JobNext]_vars

\* ------------------------------------------- the job on a recurring posting
\* the posting the crawler delivers on every run
ThePosting == [company_name |-> "A", position |-> "dev", publish_date |-> 0]

\* a run of the job on the posting; fail_at numbers the remote request that
\* raises (0: none)
RunPosting ==
    /\ Ready
    /\ StatsRoom
    /\ \E fail_at \in 0 .. Planned(remote,
                                   FilterResult(cache, stats, <<ThePosting>>).unique_records) :
           Run(<<ThePosting>>, fail_at)

SyncInit ==
    /\ now = 0
    /\ cache = {}
    /\ stats = ZeroStats
    /\ remote \in {store \in InitialStores :
                      /\ Len(store) <= 1
                      /\ \A k \in 1 .. Len(store) :
                             RowKey(store[k]) # GetDuplicateKey(ThePosting)}
    /\ render \in Renderings
    /\ cleaner_stats = ZeroCleanerStats
    /\ last = Idle

SyncNext ==
    \/ RunPosting
    \/ NewDeduplicator
    \/ Tick
    \/ Return

\* the scheduler starts the job again and again, and every run returns
SpecSync ==
    /\ SyncInit
    /\ [][SyncNext]_vars
    /\ WF_vars(RunPosting)
    /\ WF_vars(NewDeduplicator)
    /\ WF_vars(Return)

\* ----------------------------------------- the job and the cache cleanup
\* the DedupKey of a remote row: company, position and the calendar day of
\* its date, however the table renders them
RowDedupKey(row) ==
    <<row.fields.company_name[2], row.fields.position[2],
      IF row.fields.publish_date[1] = "datetime"
      THEN StrfDate(row.fields.publish_date[2]) ELSE row.fields.publish_date[2]>>

\* at most one row per DedupKey
UniqueRows(rows) ==
    \A i, j \in 1 .. Len(rows) : RowDedupKey(rows[i]) = RowDedupKey(rows[j]) => i = j

StoreInit ==
    /\ now = 0
    /\ cache = {}
    /\ stats = ZeroStats
    /\ remote = <<>>
    /\ render \in Renderings
    /\ cleaner_stats = ZeroCleanerStats
    /\ last = Idle

StoreNext ==
    \/ /\ Ready
       /\ StatsRoom
       /\ \E cleaned_records \in Batches :
              \E fail_at \in 0 .. Planned(remote,
                                          FilterResult(cache, stats, cleaned_records).unique_records) :
                  Run(cleaned_records, fail_at)
    \/ Ready /\ \E days \in 0 .. MaxDays : CleanupOldRecords(days)
    \/ NewDeduplicator
    \/ Tick
    \/ Return

SpecStore == StoreInit /\ [][StoreNext]_vars

\* ------------------------------------------------------------- field values
\* A Python value is a tagged tuple: <<"none">>, <<"str", text>>,
\* <<"list", values>>, <<"datetime", ticks>>, <<"bool", b>>.  A text is the
\* sequence of its characters; a Chinese character is written as one token
\* (its pinyin, numbered where two characters share it).
None == <<"none">>

Str(text) == <<"str", text>>

List(values) == <<"list", values>>

Datetime(t) == <<"datetime", t>>

Bool(b) == <<"bool", b>>

IsNone(v) == v[1] = "none"

IsStr(v) == v[1] = "str"

IsList(v) == v[1] = "list"

IsDatetime(v) == v[1] = "datetime"

IsBool(v) == v[1] = "bool"

\* bool(value), "if value" and "if not value"
Truthy(v) ==
    IF IsNone(v) THEN FALSE
    ELSE IF IsStr(v) \/ IsList(v) THEN v[2] # <<>>
    ELSE IF IsBool(v) THEN v[2]
    ELSE TRUE

\* str(value) of a text and of None
StrOf(v) == IF IsStr(v) THEN v[2] ELSE IF IsNone(v) THEN <<"N", "o", "n", "e">> ELSE <<"?">>

IsSpace(ch) == ch = " "

RECURSIVE LStrip(_)
LStrip(s) == IF s # <<>> /\ IsSpace(Head(s)) THEN LStrip(Tail(s)) ELSE s

RECURSIVE RStrip(_)
RStrip(s) ==
    IF s # <<>> /\ IsSpace(s[Len(s)]) THEN RStrip(SubSeq(s, 1, Len(s) - 1)) ELSE s

\* text.strip()
Strip(s) == RStrip(LStrip(s))

\* text.split(): the maximal runs of characters that are not white space
RECURSIVE SplitWs(_, _, _)
SplitWs(s, word, acc) ==
    IF s = <<>> THEN (IF word = <<>> THEN acc ELSE Append(acc, word))
    ELSE IF IsSpace(Head(s))
         THEN SplitWs(Tail(s), <<>>, IF word = <<>> THEN acc ELSE Append(acc, word))
         ELSE SplitWs(Tail(s), Append(word, Head(s)), acc)

\* text.split(sep) for a separator of one character: empty pieces are kept
RECURSIVE SplitSep(_, _, _, _)
SplitSep(s, sep, piece, acc) ==
    IF s = <<>> THEN Append(acc, piece)
    ELSE IF Head(s) = sep
         THEN SplitSep(Tail(s), sep, <<>>, Append(acc, piece))
         ELSE SplitSep(Tail(s), sep, Append(piece, Head(s)), acc)

\* sep.join(pieces)
RECURSIVE Join(_, _)
Join(pieces, sep) ==
    IF pieces = <<>> THEN <<>>
    ELSE IF Len(pieces) = 1 THEN pieces[1]
    ELSE pieces[1] \o sep \o Join(Tail(pieces), sep)

\* a in b, for texts
IsSubstring(a, b) ==
    \E i \in 0 .. Len(b) - Len(a) : SubSeq(b, i + 1, i + Len(a)) = a

\* s.startswith(prefix)
StartsWith(s, prefix) ==
    Len(s) >= Len(prefix) /\ SubSeq(s, 1, Len(prefix)) = prefix

\* ch in s
HasChar(s, ch) == \E i \in 1 .. Len(s) : s[i] = ch

\* text.lower() on the letters the texts of the model are written with
Lower(s) ==
    [i \in 1 .. Len(s) |->
        CASE s[i] = "Y" -> "y" [] s[i] = "E" -> "e" [] s[i] = "S" -> "s"
          [] s[i] = "T" -> "t" [] s[i] = "R" -> "r" [] s[i] = "U" -> "u"
          [] OTHER -> s[i]]

\* a dict in insertion order: a sequence of <<key, value>> with distinct keys
Keys(map) == {map[i][1] : i \in 1 .. Len(map)}

HasKey(map, key) == key \in Keys(map)

\* map.get(key, default)
Get(map, key, default) ==
    IF HasKey(map, key)
    THEN map[CHOOSE i \in 1 .. Len(map) : map[i][1] = key][2]
    ELSE default

\* map[key] = value: a present key keeps its place, a new key goes last
Put(map, key, value) ==
    IF HasKey(map, key)
    THEN [i \in 1 .. Len(map) |-> IF map[i][1] = key THEN <<key, value>> ELSE map[i]]
    ELSE Append(map, <<key, value>>)

\* ------------------------------------------------------------ the normalizer
\* COMPANY_TYPE_OPTIONS, INDUSTRY_OPTIONS, EDUCATION_OPTIONS, TARGET_OPTIONS
COMPANY_TYPE_OPTIONS ==
    <<<<"min", "ying", "qi", "ye">>, <<"guo", "you", "qi", "ye">>, <<"yang", "qi">>,
      <<"wai", "zi", "qi", "ye">>, <<"chuang", "ye", "gong", "si">>, <<"qi2", "ta">>>>

INDUSTRY_OPTIONS ==
    <<<<"hu", "lian", "wang">>, <<"jin", "rong">>, <<"zhi", "zao", "ye">>,
      <<"jiao", "yu">>, <<"yi", "liao">>, <<"fang", "di", "chan">>,
      <<"ling", "shou">>, <<"neng", "yuan">>, <<"qi2", "ta">>>>

EDUCATION_OPTIONS ==
    <<<<"ben", "ke">>, <<"shuo", "shi">>, <<"bo", "shi">>,
      <<"ben", "ke", "ji", "yi2", "shang">>, <<"shuo", "shi", "ji", "yi2", "shang">>,
      <<"bu", "xian">>>>

TARGET_OPTIONS ==
    <<<<"2", "0", "2", "6", "jie">>, <<"2", "0", "2", "5", "jie">>,
      <<"2", "0", "2", "4", "jie">>, <<"wang2", "jie">>>>

\* the keys of batch_keywords, in the order of the dict
batch_keywords ==
    <<<<"chun", "zhao", "ti", "qian", "pi">>, <<"chun", "zhao">>,
      <<"chun", "zhao", "bu2", "lu">>, <<"qiu", "zhao", "ti", "qian", "pi">>,
      <<"qiu", "zhao">>, <<"qiu", "zhao", "bu2", "lu">>,
      <<"han", "jia", "shi2", "xi">>, <<"shu", "qi3", "shi2", "xi">>,
      <<"ri", "chang", "shi2", "xi">>>>

Range(s) == {s[i] : i \in 1 .. Len(s)}

\* field_mapping.get(key, key) of normalize_record
FieldMapping(key) ==
    CASE key \in {"company", "gongsi", "gongsimingcheng", "qiye", "qiyemingcheng"}
             -> "company_name"
      [] key \in {"job", "zhiwei", "gangwei", "title"} -> "position"
      [] key \in {"date", "faburiqi", "gengxinriqi", "fabushijian"} -> "publish_date"
      [] key \in {"url", "lianjie", "shenqinglianjie"} -> "source"
      [] key \in {"location", "didian", "gongzuodidian", "gongzuochengshi"} -> "city"
      [] key \in {"xueli", "xuewei", "xueliyaoqiu"} -> "education"
      [] key \in {"jiezhiriqi", "shenqingjiezhi"} -> "deadline"
      [] OTHER -> key

\* for key, value in record.items(): mapped_record[standard_key] = value
RECURSIVE MapKeys(_, _, _)
MapKeys(record, i, mapped_record) ==
    IF i > Len(record) THEN mapped_record
    ELSE MapKeys(record, i + 1,
                 Put(mapped_record, FieldMapping(record[i][1]), record[i][2]))

\* _normalize_text
NormalizeText(value) ==
    IF IsNone(value) THEN Str(<<>>)
    ELSE Str(Join(SplitWs(Strip(StrOf(value)), <<>>, <<>>), <<" ">>))

Http == <<"h", "t", "t", "p", ":", "/", "/">>

Https == <<"h", "t", "t", "p", "s", ":", "/", "/">>

\* _normalize_url
NormalizeUrl(value) ==
    IF ~Truthy(value) THEN Str(<<>>)
    ELSE LET url == Strip(StrOf(value))
         IN  IF StartsWith(url, Http) \/ StartsWith(url, Https)
             THEN Str(url) ELSE Str(Https \o url)

\* the day a day-of-month text names, -1 when it names none
DayOfToken(tok) == CASE tok = "0" -> 0 [] tok = "1" -> 1 [] tok = "2" -> 2 [] OTHER -> 0 - 1

\* datetime.strptime(text, fmt): the day parsed, -1 for ValueError.  A full
\* date is written Y-M-d, Y/M/d or Y nian M yue d ri; a bare month-day M-d or
\* M/d
Strptime(text, fmt) ==
    LET Shape(pattern) ==
            /\ Len(text) = Len(pattern)
            /\ \A i \in 1 .. Len(pattern) :
                   IF pattern[i] = "%d" THEN DayOfToken(text[i]) >= 0
                   ELSE text[i] = pattern[i]
        DayAt(pattern) ==
            DayOfToken(text[CHOOSE i \in 1 .. Len(pattern) : pattern[i] = "%d"])
    IN  IF Shape(fmt) THEN DayAt(fmt) ELSE 0 - 1

\* the formats list of _normalize_date
NormalizeDateFormats ==
    <<<<"Y", "-", "M", "-", "%d">>, <<"Y", "/", "M", "/", "%d">>,
      <<"Y", "nian", "M", "yue", "%d", "ri">>, <<"M", "-", "%d">>, <<"M", "/", "%d">>>>

\* the loop over formats: the first format that parses wins; a bare month-day
\* gets the current year (the model's days all lie in the current year)
RECURSIVE ParseLoop(_, _, _, _)
ParseLoop(text, formats, k, otherwise) ==
    IF k > Len(formats) THEN otherwise
    ELSE IF Strptime(text, formats[k]) >= 0
         THEN Datetime(Strptime(text, formats[k]) * TicksPerDay)
         ELSE ParseLoop(text, formats, k + 1, otherwise)

\* _normalize_date with the fall-through returning None
NormalizeDateUnset(value, t) ==
    IF IsNone(value) THEN Datetime(t)
    ELSE IF IsDatetime(value) THEN value
    ELSE IF IsStr(value) THEN ParseLoop(value[2], NormalizeDateFormats, 1, None)
    ELSE None

\* _normalize_date at clock t
NormalizeDate(value, t) ==
    IF IsNone(value) THEN Datetime(t)
    ELSE IF IsDatetime(value) THEN value
    ELSE IF IsStr(value) THEN ParseLoop(value[2], NormalizeDateFormats, 1, Datetime(t))
    ELSE Datetime(t)

RECURSIVE FirstKeyword(_, _, _)
FirstKeyword(text, keywords, k) ==
    IF k > Len(keywords) THEN (IF text # <<>> THEN text ELSE <<"chun", "zhao">>)
    ELSE IF IsSubstring(keywords[k], text) THEN keywords[k]
    ELSE FirstKeyword(text, keywords, k + 1)

\* _normalize_batch
NormalizeBatch(value) ==
    IF ~Truthy(value) THEN Str(<<>>)
    ELSE Str(FirstKeyword(Strip(StrOf(value)), batch_keywords, 1))

\* for option in options: if option in text or text in option: return option
RECURSIVE FuzzyMatch(_, _, _, _)
FuzzyMatch(text, options, k, default) ==
    IF k > Len(options) THEN default
    ELSE IF IsSubstring(options[k], text) \/ IsSubstring(text, options[k])
         THEN options[k]
         ELSE FuzzyMatch(text, options, k + 1, default)

\* _normalize_enum without the exact match
NormalizeEnumNoExact(value, options, default) ==
    IF ~Truthy(value) THEN Str(default)
    ELSE LET first == IF IsList(value) THEN value[2][1] ELSE value
             text == Strip(StrOf(first))
         IN  Str(FuzzyMatch(text, options, 1, default))

\* _normalize_enum
NormalizeEnum(value, options, default) ==
    IF ~Truthy(value) THEN Str(default)
    ELSE LET first == IF IsList(value) THEN value[2][1] ELSE value
             text == Strip(StrOf(first))
         IN  IF text \in Range(options) THEN Str(text)
             ELSE Str(FuzzyMatch(text, options, 1, default))

\* the separators _normalize_list tries, in order (dun is the Chinese comma,
\* fsemi the full-width semicolon)
ListSeparators == <<",", "dun", "/", "|", "fsemi", ";">>

\* [v.strip() for v in value.split(sep) if v.strip()]
SplitStripped(text, sep) ==
    LET pieces == SplitSep(text, sep, <<>>, <<>>)
        stripped == [i \in 1 .. Len(pieces) |-> Str(Strip(pieces[i]))]
    IN  SelectSeq(stripped, LAMBDA p : p[2] # <<>>)

RECURSIVE SplitFirstSep(_, _, _)
SplitFirstSep(text, seps, k) ==
    IF k > Len(seps) THEN <<Str(Strip(text))>>
    ELSE IF HasChar(text, seps[k]) THEN SplitStripped(text, seps[k])
    ELSE SplitFirstSep(text, seps, k + 1)

\* _normalize_list
NormalizeList(value) ==
    IF ~Truthy(value) THEN List(<<>>)
    ELSE IF IsList(value)
         THEN LET kept == SelectSeq(value[2], Truthy)
              IN  List([i \in 1 .. Len(kept) |-> Str(Strip(StrOf(kept[i])))])
    ELSE IF IsStr(value) THEN List(SplitFirstSep(value[2], ListSeparators, 1))
    ELSE List(<<>>)

DefaultTarget == <<Str(<<"2", "0", "2", "6", "jie">>)>>

\* _normalize_target_list
NormalizeTargetList(value) ==
    IF ~Truthy(value) THEN List(DefaultTarget)
    ELSE IF IsList(value)
         THEN LET stripped == [i \in 1 .. Len(value[2]) |-> Str(Strip(StrOf(value[2][i])))]
                  targets == SelectSeq(stripped, LAMBDA v : v[2] \in Range(TARGET_OPTIONS))
              IN  List(IF targets # <<>> THEN targets ELSE DefaultTarget)
    ELSE IF IsStr(value)
         THEN LET found == SelectSeq(TARGET_OPTIONS, LAMBDA o : IsSubstring(o, value[2]))
                  targets == [i \in 1 .. Len(found) |-> Str(found[i])]
              IN  List(IF targets # <<>> THEN targets ELSE DefaultTarget)
    ELSE List(DefaultTarget)

\* ("yes", "是", "true", "1", "免笔试")
Affirmatives ==
    {<<"y", "e", "s">>, <<"shi3">>, <<"t", "r", "u", "e">>, <<"1">>,
     <<"mian", "bi", "shi4">>}

\* _normalize_boolean
NormalizeBoolean(value) ==
    IF IsBool(value) THEN value
    ELSE IF IsStr(value) THEN Bool(Lower(value[2]) \in Affirmatives)
    ELSE Bool(Truthy(value))

\* normalize_record at clock t: the key mapping, then the thirteen fields
NormalizeRecord(record, t) ==
    LET mapped_record == MapKeys(record, 1, <<>>)
    IN  <<<<"company_name", NormalizeText(Get(mapped_record, "company_name", Str(<<>>)))>>,
          <<"position", NormalizeText(Get(mapped_record, "position", Str(<<>>)))>>,
          <<"source", NormalizeUrl(Get(mapped_record, "source", Str(<<>>)))>>,
          <<"publish_date", NormalizeDate(Get(mapped_record, "publish_date", None), t)>>,
          <<"deadline", NormalizeDate(Get(mapped_record, "deadline", None), t)>>,
          <<"batch", NormalizeBatch(Get(mapped_record, "batch", None))>>,
          <<"company_type", NormalizeEnum(Get(mapped_record, "company_type", None),
                                          COMPANY_TYPE_OPTIONS, <<"min", "ying", "qi", "ye">>)>>,
          <<"industry", NormalizeEnum(Get(mapped_record, "industry", None),
                                      INDUSTRY_OPTIONS, <<"hu", "lian", "wang">>)>>,
          <<"city", NormalizeList(Get(mapped_record, "city", None))>>,
          <<"education", NormalizeEnum(Get(mapped_record, "education", None),
                                       EDUCATION_OPTIONS,
                                       <<"ben", "ke", "ji", "yi2", "shang">>)>>,
          <<"target", NormalizeTargetList(Get(mapped_record, "target", None))>>,
          <<"no_written_test", NormalizeBoolean(Get(mapped_record, "no_written_test", None))>>,
          <<"referral_code", NormalizeText(Get(mapped_record, "referral_code", Str(<<>>)))>>>>

\* normalize_records (no field of the model's inputs makes normalize_record raise)
NormalizeRecords(records, t) ==
    [i \in 1 .. Len(records) |-> NormalizeRecord(records[i], t)]

\* --------------------------------------------------------------- the cleaner
\* _is_valid that tests company_name only
IsValidCompanyOnly(record) ==
    LET value == Get(record, "company_name", None)
    IN  ~(~Truthy(value) \/ (IsStr(value) /\ Strip(value[2]) = <<>>))

\* _is_valid: company_name and position are set and not blank
IsValid(record) ==
    \A field \in {"company_name", "position"} :
        LET value == Get(record, field, None)
        IN  ~(~Truthy(value) \/ (IsStr(value) /\ Strip(value[2]) = <<>>))

\* text.replace("（", "(").replace("）", ")"): fparl and fparr are the
\* full-width parentheses
ReplaceParens(text) ==
    [i \in 1 .. Len(text) |->
        IF text[i] = "fparl" THEN "(" ELSE IF text[i] = "fparr" THEN ")" ELSE text[i]]

\* _clean_company_name and _clean_position (the same code)
CleanName(value) ==
    IF ~Truthy(value) THEN Str(<<>>)
    ELSE Str(Join(SplitWs(ReplaceParens(Strip(StrOf(value))), <<>>, <<>>), <<" ">>))

\* _clean_url
CleanUrl(value) ==
    IF ~Truthy(value) THEN Str(<<>>)
    ELSE LET url == Strip(StrOf(value))
         IN  IF url # <<>> /\ ~(StartsWith(url, Http) \/ StartsWith(url, Https))
             THEN Str(Https \o url) ELSE Str(url)

\* the formats list of _clean_date; T is a time of day 00:00:00
CleanDateFormats ==
    NormalizeDateFormats \o <<<<"Y", "-", "M", "-", "%d", " ", "T">>>>

\* the days from 1 January 1900, the year strptime gives a date without one,
\* to the first day of the model
DaysSince1900 == 1000

\* the loop over formats of _clean_date: a bare month-day keeps the year 1900
RECURSIVE CleanParseLoop(_, _, _)
CleanParseLoop(text, formats, k) ==
    IF k > Len(formats) THEN None
    ELSE IF Strptime(text, formats[k]) >= 0
         THEN IF formats[k][1] = "Y"
              THEN Datetime(Strptime(text, formats[k]) * TicksPerDay)
              ELSE Datetime((Strptime(text, formats[k]) - DaysSince1900) * TicksPerDay)
         ELSE CleanParseLoop(text, formats, k + 1)

\* _clean_date
CleanDate(value) ==
    IF IsNone(value) THEN None
    ELSE IF IsDatetime(value) THEN value
    ELSE IF IsStr(value) THEN CleanParseLoop(value[2], CleanDateFormats, 1)
    ELSE None

\* _clean_batch: batch_mapping maps every label to itself
CleanBatch(value) ==
    IF ~Truthy(value) THEN Str(<<>>) ELSE Str(Strip(StrOf(value)))

\* for key, val in mapping.items(): if key in text: return val
RECURSIVE FirstMapped(_, _, _, _)
FirstMapped(text, mapping, k, otherwise) ==
    IF k > Len(mapping) THEN otherwise
    ELSE IF IsSubstring(mapping[k][1], text) THEN mapping[k][2]
    ELSE FirstMapped(text, mapping, k + 1, otherwise)

Other == <<"qi2", "ta">>

\* the fuzzy match, then the variations, then "其他" for a text and "" for none
CleanEnum(text, options, mapping, otherwise) ==
    LET hit == FuzzyMatch(text, options, 1, <<"no match">>)
    IN  IF hit # <<"no match">> THEN Str(hit)
        ELSE Str(FirstMapped(text, mapping, 1, IF text # <<>> THEN otherwise ELSE <<>>))

type_mapping ==
    <<<<<<"min", "ying">>, <<"min", "ying", "qi", "ye">>>>,
      <<<<"guo", "qi">>, <<"guo", "you", "qi", "ye">>>>,
      <<<<"yang", "qi">>, <<"yang", "qi">>>>,
      <<<<"wai", "qi">>, <<"wai", "zi", "qi", "ye">>>>,
      <<<<"chuang", "ye">>, <<"chuang", "ye", "gong", "si">>>>>>

\* _normalize_company_type
CleanCompanyType(value) ==
    IF ~Truthy(value) THEN Str(<<>>)
    ELSE CleanEnum(Strip(StrOf(value)), COMPANY_TYPE_OPTIONS, type_mapping, Other)

industry_mapping ==
    <<<<<<"I", "T">>, <<"hu", "lian", "wang">>>>,
      <<<<"ruan", "jian">>, <<"hu", "lian", "wang">>>>,
      <<<<"dian", "shang">>, <<"hu", "lian", "wang">>>>,
      <<<<"you2", "xi2">>, <<"hu", "lian", "wang">>>>,
      <<<<"yin", "hang">>, <<"jin", "rong">>>>,
      <<<<"zheng", "quan">>, <<"jin", "rong">>>>,
      <<<<"ji2", "jin">>, <<"jin", "rong">>>>,
      <<<<"bao", "xian2">>, <<"jin", "rong">>>>>>

\* _normalize_industry
CleanIndustry(value) ==
    IF ~Truthy(value) THEN Str(<<>>)
    ELSE LET first == IF IsList(value) THEN value[2][1] ELSE value
         IN  CleanEnum(Strip(StrOf(first)), INDUSTRY_OPTIONS, industry_mapping, Other)

edu_mapping ==
    <<<<<<"ben", "ke">>, <<"ben", "ke">>>>,
      <<<<"xue", "shi">>, <<"ben", "ke">>>>,
      <<<<"shuo", "shi">>, <<"shuo", "shi">>>>,
      <<<<"yan", "jiu", "sheng">>, <<"shuo", "shi">>>>,
      <<<<"bo", "shi">>, <<"bo", "shi">>>>,
      <<<<"bu", "xian">>, <<"bu", "xian">>>>>>

\* _normalize_education
CleanEducation(value) ==
    IF ~Truthy(value) THEN Str(<<>>)
    ELSE CleanEnum(Strip(StrOf(value)), EDUCATION_OPTIONS, edu_mapping,
                   <<"ben", "ke", "ji", "yi2", "shang">>)

\* the separators _normalize_city tries, in order
CitySeparators == <<",", "dun", "/", "|", " ", "fsemi", ";">>

\* the loop of _normalize_city: the first separator found splits the text
RECURSIVE CitySplit(_, _, _)
CitySplit(text, seps, k) ==
    IF k > Len(seps) THEN <<>>
    ELSE IF HasChar(text, seps[k]) THEN SplitStripped(text, seps[k])
    ELSE CitySplit(text, seps, k + 1)

\* _normalize_city
CleanCity(value) ==
    IF ~Truthy(value) THEN List(<<>>)
    ELSE IF IsList(value)
         THEN LET kept == SelectSeq(value[2], Truthy)
              IN  List([i \in 1 .. Len(kept) |-> Str(Strip(StrOf(kept[i])))])
    ELSE IF IsStr(value)
         THEN LET cities == CitySplit(value[2], CitySeparators, 1)
              IN  IF cities # <<>> THEN List(cities)
                  ELSE IF Strip(value[2]) # <<>> THEN List(<<Str(Strip(value[2]))>>)
                  ELSE List(<<>>)
    ELSE List(<<>>)

\* _normalize_target
CleanTarget(value) ==
    IF ~Truthy(value) THEN List(<<>>)
    ELSE IF IsList(value)
         THEN LET kept == SelectSeq(value[2], Truthy)
              IN  List([i \in 1 .. Len(kept) |-> Str(Strip(StrOf(kept[i])))])
    ELSE IF IsStr(value)
         THEN LET found == SelectSeq(TARGET_OPTIONS,
                                     LAMBDA o : IsSubstring(o, Strip(value[2])))
                  targets == [i \in 1 .. Len(found) |-> Str(found[i])]
              IN  List(IF targets # <<>> THEN targets ELSE DefaultTarget)
    ELSE List(<<>>)

\* _clean_boolean
CleanBoolean(value) ==
    IF IsBool(value) THEN value
    ELSE IF IsStr(value)
         THEN Bool(Lower(Strip(value[2])) \in Affirmatives \cup {<<"mian", "bi">>})
    ELSE Bool(Truthy(value))

\* _clean_referral_code
CleanReferralCode(value) ==
    IF ~Truthy(value) THEN Str(<<>>)
    ELSE Str(SelectSeq(Strip(StrOf(value)), LAMBDA ch : ch # " "))

RECURSIVE PutAll(_, _, _)
PutAll(map, pairs, i) ==
    IF i > Len(pairs) THEN map
    ELSE PutAll(Put(map, pairs[i][1], pairs[i][2]), pairs, i + 1)

\* the cleaned copy clean_record builds of a valid record
CleanedCopy(record) ==
    PutAll(record,
           <<<<"company_name", CleanName(Get(record, "company_name", None))>>,
             <<"position", CleanName(Get(record, "position", None))>>,
             <<"source", CleanUrl(Get(record, "source", None))>>,
             <<"publish_date", CleanDate(Get(record, "publish_date", None))>>,
             <<"deadline", CleanDate(Get(record, "deadline", None))>>,
             <<"batch", CleanBatch(Get(record, "batch", None))>>,
             <<"company_type", CleanCompanyType(Get(record, "company_type", None))>>,
             <<"industry", CleanIndustry(Get(record, "industry", None))>>,
             <<"city", CleanCity(Get(record, "city", None))>>,
             <<"education", CleanEducation(Get(record, "education", None))>>,
             <<"target", CleanTarget(Get(record, "target", None))>>,
             <<"no_written_test", CleanBoolean(Get(record, "no_written_test", None))>>,
             <<"referral_code", CleanReferralCode(Get(record, "referral_code", None))>>>>,
           1)

\* clean_record that does not count the records it turns down
CleanRecordResultUncounted(cs, record) ==
    IF ~IsValid(record)
    THEN [stats |-> [cs EXCEPT !.processed = @ + 1], out |-> <<>>]
    ELSE [stats |-> [cs EXCEPT !.processed = @ + 1, !.cleaned = @ + 1],
          out |-> <<CleanedCopy(record)>>]

\* clean_record: the counters after it and what it returns (<<>> for None,
\* <<cleaned>> for a record)
CleanRecordResult(cs, record) ==
    IF ~IsValid(record)
    THEN [stats |-> [cs EXCEPT !.processed = @ + 1, !.invalid = @ + 1],
          out |-> <<>>]
    ELSE [stats |-> [cs EXCEPT !.processed = @ + 1, !.cleaned = @ + 1],
          out |-> <<CleanedCopy(record)>>]

\* the loop of clean_records ("if cleaned" holds of every cleaned record: a
\* dict with keys)
RECURSIVE CleanLoop(_, _, _)
CleanLoop(records, i, acc) ==
    IF i > Len(records) THEN acc
    ELSE LET r == CleanRecordResult(acc.stats, records[i])
         IN  CleanLoop(records, i + 1, [stats |-> r.stats, out |-> acc.out \o r.out])

\* clean_records with the records clean_record turns down kept as they are
CleanRecordsResultKeepInvalid(cs, records) ==
    [stats |-> CleanLoop(records, 1, [stats |-> cs, out |-> <<>>]).stats,
     out |-> [i \in 1 .. Len(records) |-> CleanedCopy(records[i])]]

\* clean_records
CleanRecordsResult(cs, records) == CleanLoop(records, 1, [stats |-> cs, out |-> <<>>])

\* ------------------------------------------- inputs of normalizer and cleaner
TextChars == {"a", " "}

Texts == UNION {[1 .. n -> TextChars] : n \in 0 .. MaxText}

TextValues == {None} \cup {Str(s) : s \in Texts}

UrlValues ==
    {None, Str(<<>>), Str(<<" ">>), Str(<<"a">>), Str(<<" ", "a">>), Str(Https \o <<"a">>),
     Str(Http \o <<"a">>), Str(<<" ">> \o Https \o <<"a">>), Str(Https)}

DayTokens == {"0", "1"}

DateValues ==
    {None, Str(<<"a">>), Str(<<>>)} \cup {Datetime(t) : t \in 0 .. MaxTime}
    \cup {Str([i \in 1 .. Len(NormalizeDateFormats[k]) |->
                 IF NormalizeDateFormats[k][i] = "%d" THEN d
                 ELSE NormalizeDateFormats[k][i]]) :
             k \in 1 .. Len(NormalizeDateFormats), d \in DayTokens}

\* texts made of the labels o: the label, padded, with a character after it,
\* and every piece of it
LabelTexts(labels) ==
    UNION {{o, <<" ">> \o o \o <<" ">>, o \o <<"a">>}
           \cup {SubSeq(o, i, j) : i, j \in 1 .. Len(o)} : o \in Range(labels)}

BatchValues ==
    {None, Str(<<"a">>), Str(<<" ">>)} \cup {Str(s) : s \in LabelTexts(batch_keywords)}

EnumValues(options) ==
    {None, Str(<<"a">>), List(<<>>), List(<<None>>), List(<<Str(<<>>)>>)}
    \cup {Str(s) : s \in LabelTexts(options)}
    \cup {List(<<Str(o)>>) : o \in Range(options)}
    \cup {List(<<Str(o), Str(options[1])>>) : o \in Range(options)}

CityValues ==
    {None, Str(<<>>), Str(<<" ">>), Str(<<"a">>), Str(<<"a", ",", "b">>),
     Str(<<"a", ",", " ", "b">>), Str(<<"b", ",", "a">>), Str(<<"a", ",", "a">>),
     Str(<<"a", ",", ",", "b">>), Str(<<"a", "/", "b", ",", "c">>),
     Str(<<"a", "dun", "b">>), Str(<<"a", " ", "b">>),
     List(<<>>), List(<<Str(<<"a">>), Str(<<"b">>)>>), List(<<Str(<<" ">>)>>),
     List(<<Str(<<>>)>>), List(<<Str(<<"a", ",", "b">>)>>),
     List(<<Str(<<"a">>), Str(<<"a">>)>>)}

TargetValues ==
    {None, Str(<<>>), Str(<<"a">>), Str(TARGET_OPTIONS[1] \o TARGET_OPTIONS[2]),
     List(<<>>), List(<<Str(<<"a">>)>>),
     List(<<Str(TARGET_OPTIONS[2]), Str(<<"a">>), Str(TARGET_OPTIONS[4])>>)}
    \cup {Str(o) : o \in Range(TARGET_OPTIONS)}
    \cup {Str(<<"a">> \o o) : o \in Range(TARGET_OPTIONS)}

BooleanValues ==
    {None, Bool(TRUE), Bool(FALSE), Str(<<>>), Str(<<"n", "o">>), Str(<<"Y", "E", "S">>),
     Str(<<" ", "1">>)}
    \cup {Str(s) : s \in Affirmatives}

CanonicalFields ==
    {"company_name", "position", "source", "publish_date", "deadline", "batch",
     "company_type", "industry", "city", "education", "target", "no_written_test",
     "referral_code"}

FieldValues(field) ==
    CASE field \in {"company_name", "position", "referral_code"} -> TextValues
      [] field = "source" -> UrlValues
      [] field \in {"publish_date", "deadline"} -> DateValues
      [] field = "batch" -> BatchValues
      [] field = "company_type" -> EnumValues(COMPANY_TYPE_OPTIONS)
      [] field = "industry" -> EnumValues(INDUSTRY_OPTIONS)
      [] field = "education" -> EnumValues(EDUCATION_OPTIONS)
      [] field = "city" -> CityValues
      [] field = "target" -> TargetValues
      [] field = "no_written_test" -> BooleanValues

\* a field map with the two required fields set
BaseRecord == <<<<"company_name", Str(<<"a">>)>>, <<"position", Str(<<"a">>)>>>>

\* field maps in canonical field names: the base with one field set to each
\* of its values, and the maps that lack a required field
CanonicalInputs ==
    UNION {{Put(BaseRecord, field, value) : value \in FieldValues(field)} :
              field \in CanonicalFields}
    \cup {<<>>, <<BaseRecord[1]>>, <<BaseRecord[2]>>}

\* the entries the field maps of one posting are made of: canonical keys and
\* aliases of them
PostingEntries ==
    {<<"company_name", Str(<<"a">>)>>, <<"company", Str(<<"b">>)>>,
     <<"gangwei", Str(<<"a", " ", "a">>)>>, <<"publish_date", Datetime(0)>>,
     <<"city", List(<<Str(<<"a">>), Str(<<"b">>)>>)>>}

\* the field maps of at most MaxKeys of these entries, in any key order
PostingMaps ==
    UNION {{m \in [1 .. n -> PostingEntries] :
               \A i, j \in 1 .. n : i # j => m[i][1] # m[j][1]} : n \in 0 .. MaxKeys}

\* the same entries in another key order
Reordered(m) ==
    {[i \in 1 .. Len(m) |-> m[p[i]]] :
        p \in {q \in [1 .. Len(m) -> 1 .. Len(m)] :
                  \A i, j \in 1 .. Len(m) : i # j => q[i] # q[j]}}

\* the text with white space around it and every blank doubled
RECURSIVE DoubleBlanks(_)
DoubleBlanks(s) ==
    IF s = <<>> THEN <<>>
    ELSE (IF IsSpace(Head(s)) THEN <<" ", " ">> ELSE <<Head(s)>>) \o DoubleBlanks(Tail(s))

Padded(m) ==
    [i \in 1 .. Len(m) |->
        IF IsStr(m[i][2])
        THEN <<m[i][1], Str(<<" ">> \o DoubleBlanks(m[i][2][2]) \o <<" ", " ">>)>>
        ELSE m[i]]

\* the city list in reverse order
CityReversed(m) ==
    [i \in 1 .. Len(m) |->
        IF m[i][1] = "city" /\ IsList(m[i][2])
        THEN <<m[i][1], List([k \in 1 .. Len(m[i][2][2]) |->
                                 m[i][2][2][Len(m[i][2][2]) + 1 - k]])>>
        ELSE m[i]]

\* the other field maps of the posting of m
Variants(m) == Reordered(m) \cup {Padded(m), CityReversed(m)}

\* the record the deduplicator and the reconciler read of a field map whose
\* publish_date is a datetime: the three fields of DEDUPLICATION_FIELDS
KeyRecord(map) ==
    [company_name |-> Get(map, "company_name", Str(<<>>))[2],
     position |-> Get(map, "position", Str(<<>>))[2],
     publish_date |-> Get(map, "publish_date", None)[2]]

KeyRecords(maps) == [i \in 1 .. Len(maps) |-> KeyRecord(maps[i])]

\* ----------------------------------------- calls of normalizer and cleaner
NormalizeRecordCall(record) ==
    /\ Ready
    /\ last' = [Call("normalize_record") EXCEPT
                   !.records = <<record>>, !.out = <<NormalizeRecord(record, now)>>]
    /\ UNCHANGED <<now, cache, stats, remote, render, cleaner_stats>>

\* the caller hands the record it got back to normalize_record
NormalizeAgain ==
    /\ last.op = "normalize_record"
    /\ ~last.ret
    /\ last' = [Call("normalize_record") EXCEPT
                   !.records = last.out, !.args = last.records, !.ret = TRUE,
                   !.out = <<NormalizeRecord(last.out[1], now)>>]
    /\ UNCHANGED <<now, cache, stats, remote, render, cleaner_stats>>

NormalizeEnumCall(value, options, default) ==
    /\ Ready
    /\ last' = [Call("_normalize_enum") EXCEPT
                   !.records = <<value>>, !.args = <<options, default>>,
                   !.out = <<NormalizeEnum(value, options, default)>>]
    /\ UNCHANGED <<now, cache, stats, remote, render, cleaner_stats>>

\* the values handed to _normalize_date and _clean_date: the date values of a
\* field map, a text in the sixth format of _clean_date, a padded date and
\* values that are neither None, a datetime nor a text
DateInputs ==
    DateValues \cup {Str(<<"Y", "-", "M", "-", "1", " ", "T">>),
                     Str(<<" ", "Y", "-", "M", "-", "1">>), Bool(TRUE), List(<<>>)}

NormalizeDateCall(value) ==
    /\ Ready
    /\ last' = [Call("_normalize_date") EXCEPT
                   !.records = <<value>>, !.out = <<NormalizeDate(value, now)>>]
    /\ UNCHANGED <<now, cache, stats, remote, render, cleaner_stats>>

CleanDateCall(value) ==
    /\ Ready
    /\ last' = [Call("_clean_date") EXCEPT
                   !.records = <<value>>, !.out = <<CleanDate(value)>>]
    /\ UNCHANGED <<now, cache, stats, remote, render, cleaner_stats>>

\* two field maps are normalized and hashed, one after the other
HashPair(m1, m2) ==
    /\ Ready
    /\ \E n1 \in {NormalizeRecord(m1, now)}, n2 \in {NormalizeRecord(m2, now)} :
           last' = [Call("hash_pair") EXCEPT
                       !.records = <<m1, m2>>, !.out = <<n1, n2>>,
                       !.lookups = <<GenerateHash(KeyRecord(n1)),
                                     GenerateHash(KeyRecord(n2))>>]
    /\ UNCHANGED <<now, cache, stats, remote, render, cleaner_stats>>

\* the calls of one DataCleaner go on until it has processed more than
\* MaxCleaned records
CleanerRoom == cleaner_stats.processed <= MaxCleaned

CleanRecord(record) ==
    /\ Ready
    /\ CleanerRoom
    /\ \E r \in {CleanRecordResult(cleaner_stats, record)} :
           /\ cleaner_stats' = r.stats
           /\ last' = [Call("clean_record") EXCEPT
                          !.records = <<record>>, !.out = r.out]
    /\ UNCHANGED <<now, cache, stats, remote, render>>

\* the lists handed to clean_records: records with both required fields and
\* records that lack one or hold a blank one
CleanLists ==
    UNION {[1 .. n -> {BaseRecord,
                       Put(BaseRecord, "company_name", Str(<<" ", "a">>)),
                       <<BaseRecord[2]>>,
                       Put(BaseRecord, "position", Str(<<" ">>))}] : n \in 0 .. MaxBatch}

CleanRecords(records) ==
    /\ Ready
    /\ CleanerRoom
    /\ \E r \in {CleanRecordsResult(cleaner_stats, records)} :
           /\ cleaner_stats' = r.stats
           /\ last' = [Call("clean_records") EXCEPT !.records = records, !.out = r.out]
    /\ UNCHANGED <<now, cache, stats, remote, render>>

\* DataCleaner(): a new instance, its counters at zero
NewCleaner ==
    /\ Ready
    /\ cleaner_stats # ZeroCleanerStats
    /\ cleaner_stats' = ZeroCleanerStats
    /\ UNCHANGED <<now, cache, stats, remote, render, last>>

ProcInit ==
    /\ now = 0
    /\ cache = {}
    /\ stats = ZeroStats
    /\ remote = <<>>
    /\ render = "echo"
    /\ cleaner_stats = ZeroCleanerStats
    /\ last = Idle

ProcNext ==
    \/ Ready /\ \E record \in CanonicalInputs : NormalizeRecordCall(record)
    \/ NormalizeAgain
    \/ /\ Ready
       /\ \E enum \in {<<COMPANY_TYPE_OPTIONS, <<"min", "ying", "qi", "ye">>>>,
                       <<INDUSTRY_OPTIONS, <<"hu", "lian", "wang">>>>,
                       <<EDUCATION_OPTIONS, <<"ben", "ke", "ji", "yi2", "shang">>>>} :
              \E value \in EnumValues(enum[1]) :
                  NormalizeEnumCall(value, enum[1], enum[2])
    \/ Ready /\ \E m1 \in PostingMaps : \E m2 \in Variants(m1) : HashPair(m1, m2)
    \/ Ready /\ \E value \in DateInputs : NormalizeDateCall(value)
    \/ Ready /\ \E value \in DateInputs : CleanDateCall(value)
    \/ /\ Ready
       /\ CleanerRoom
       /\ \E record \in CanonicalInputs \cup {NormalizeRecord(m, now) : m \in CanonicalInputs} :
              CleanRecord(record)
    \/ Ready /\ CleanerRoom /\ \E records \in CleanLists : CleanRecords(records)
    \/ NewCleaner
    \/ Tick
    \/ Return

SpecProc == ProcInit /\ [][ProcNext]_vars

\* ------------------------------------------------- the whole crawler job
\* what crawler.run() returns: field maps with or without the two required
\* fields, under the canonical key or an alias, with or without a date
RawRecords ==
    {<<<<"company_name", Str(<<"a">>)>>, <<"gangwei", Str(<<"d", " ">>)>>>>,
     <<<<"position", Str(<<"d">>)>>, <<"company", Str(<<" ", "b">>)>>,
       <<"publish_date", Datetime(0)>>>>,
     <<<<"company_name", None>>, <<"position", Str(<<"d">>)>>>>,
     <<<<"company", Str(<<" ">>)>>, <<"position", Str(<<"d">>)>>,
       <<"publish_date", Datetime(0)>>>>,
     <<<<"company_name", Str(<<"a">>)>>, <<"position", Str(<<>>)>>>>,
     <<<<"publish_date", Datetime(0)>>>>}

RawBatches == UNION {[1 .. n -> RawRecords] : n \in 0 .. MaxBatch}

\* the records of the job after normalize_records and clean_records
CleanedRecords(cs, raw_records, t) ==
    CleanRecordsResult(cs, NormalizeRecords(raw_records, t))

\* CrawlerJob.run: the return when nothing was fetched, normalize_records,
\* clean_records, then the rest of the job on the cleaned records
RunPipeline(raw_records, fail_at) ==
    /\ Ready
    /\ StatsRoom
    /\ CleanerRoom
    /\ Len(remote) <= MaxRemote
    /\ IF raw_records = <<>>
       THEN /\ last' = [Call("run") EXCEPT !.args = raw_records]
            /\ UNCHANGED <<cache, stats, remote, cleaner_stats>>
       ELSE \E cleaned \in {CleanedRecords(cleaner_stats, raw_records, now)} :
                \E cleaned_records \in {KeyRecords(cleaned.out)} :
                    \E r \in {RunResult(cache, stats, remote, now, cleaned_records, fail_at)} :
                        /\ cleaner_stats' = cleaned.stats
                        /\ cache' = r.cache
                        /\ stats' = r.stats
                        /\ remote' = r.rows
                        /\ last' = [Call("run") EXCEPT
                                       !.args = raw_records, !.records = cleaned_records,
                                       !.out = r.unique_records, !.existing = remote,
                                       !.ret = r.synced, !.calls = r.calls,
                                       !.raised = r.raised, !.result = r.result]
    /\ UNCHANGED <<now, render>>

\* CrawlerJob(): a new DataCleaner and a new Deduplicator on the same cache
\* file, the counters of both at zero
NewCrawlerJob ==
    /\ Ready
    /\ stats # ZeroStats \/ cleaner_stats # ZeroCleanerStats
    /\ stats' = ZeroStats
    /\ cleaner_stats' = ZeroCleanerStats
    /\ UNCHANGED <<now, cache, remote, render, last>>

\* the runs of the job at one reading of the clock, whichever it is
PipeInit ==
    /\ now \in 0 .. MaxTime
    /\ cache = {}
    /\ stats = ZeroStats
    /\ remote = <<>>
    /\ render \in Renderings
    /\ cleaner_stats = ZeroCleanerStats
    /\ last = Idle

PipeNext ==
    \/ /\ Ready
       /\ StatsRoom
       /\ CleanerRoom
       /\ \E raw_records \in RawBatches :
              \E fail_at \in 0 .. Planned(remote,
                      FilterResult(cache, stats,
                          KeyRecords(CleanedRecords(cleaner_stats, raw_records, now).out)
                      ).unique_records) :
                  RunPipeline(raw_records, fail_at)
    \/ NewCrawlerJob
    \/ Return

SpecPipe == PipeInit /\ [][PipeNext]_vars

\* ------------------------------------------- the job on an undated posting
\* a posting whose field map has no publish_date
UndatedPosting == <<<<"company_name", Str(<<"a">>)>>, <<"position", Str(<<"d">>)>>>>

\* a run of the job that fetches the posting; fail_at numbers the remote
\* request that raises (0: none)
RunUndated ==
    /\ Ready
    /\ StatsRoom
    /\ CleanerRoom
    /\ \E fail_at \in 0 .. Planned(remote,
               FilterResult(cache, stats,
                   KeyRecords(CleanedRecords(cleaner_stats, <<UndatedPosting>>, now).out)
               ).unique_records) :
           RunPipeline(<<UndatedPosting>>, fail_at)

UndatedInit ==
    /\ now = 0
    /\ cache = {}
    /\ stats = ZeroStats
    /\ remote = <<>>
    /\ render \in Renderings
    /\ cleaner_stats = ZeroCleanerStats
    /\ last = Idle

UndatedNext ==
    \/ RunUndated
    \/ NewCrawlerJob
    \/ Tick
    \/ Return

SpecUndated == UndatedInit /\ [][UndatedNext]_vars

\* ------------------------------------------------------------------ claims
HashOf(records, i) == GenerateHash(records[i])

Count(s, h) == Cardinality({i \in 1 .. Len(s) : s[i] = h})

CountHash(records, h) ==
    Cardinality({i \in 1 .. Len(records) : HashOf(records, i) = h})

\* the elements of s at the indices of K that are not below i, in the order
\* of s
PickFrom(s, K, i) ==
    LET indices == SelectSeq([k \in 1 .. Len(s) |-> k], LAMBDA k : k \in K /\ k >= i)
    IN  [j \in 1 .. Len(indices) |-> s[indices[j]]]

FirstOccurrences(records, c) ==
    PickFrom(records,
             {i \in 1 .. Len(records) :
                 /\ ~InCache(c, HashOf(records, i))
                 /\ \A j \in 1 .. i - 1 : HashOf(records, j) # HashOf(records, i)},
             1)

\* the indices of K, ascending, as a sequence
Ascending(K, n) == PickFrom(Items(n), K, 1)

Flatten(requests) ==
    LET RECURSIVE Cat(_)
        Cat(k) == IF k > Len(requests) THEN <<>>
                  ELSE requests[k].records \o Cat(k + 1)
    IN  Cat(1)

\* C1: whenever the fetch, a create chunk or an update chunk raises,
\* add_recruitments reports failed == len(input), created == 0 and
\* updated == 0.
C1_AllOrNothing ==
    (last.op = "add_recruitments" /\ last.raised) =>
        /\ last.result.failed = Len(last.records)
        /\ last.result.created = 0
        /\ last.result.updated = 0

\* C2: a pipeline run whose reconciliation reports the batch as failed leaves
\* the dedup cache as it was before the run.
C2_FailureKeepsCache ==
    (last.op = "run" /\ last.result.failed > 0) => cache = last.before

C4_Chunking ==
    last.op \in {"batch_create_records", "batch_update_records"} =>
        LET queue == IF last.op = "batch_create_records"
                     THEN last.to_create ELSE last.to_update
        IN  /\ \A k \in 1 .. Len(last.calls) :
                   /\ Len(last.calls[k].records) >= 1
                   /\ Len(last.calls[k].records) <= 500
            /\ Flatten(last.calls) = SubSeq(queue, 1, Len(Flatten(last.calls)))
            /\ ~last.raised => Flatten(last.calls) = queue
            /\ queue = <<>> => last.calls = <<>>

\* a queue of two full chunks and one more item, sent in three requests
C4_Witness ==
    /\ last.op = "batch_update_records"
    /\ ~last.raised
    /\ Len(last.to_update) = 2 * batch_size + 1
    /\ Len(last.calls) = 3

TheRecord == last.records[1]

\* C5: the list filter_duplicates returns has pairwise distinct hashes, holds
\* no record whose hash is in the cache, and is exactly the first occurrence,
\* in input order, of every hash of the batch that is not in the cache.
C5_FilterOutput ==
    last.op = "filter_duplicates" =>
        /\ \A i, j \in 1 .. Len(last.out) :
               i # j => HashOf(last.out, i) # HashOf(last.out, j)
        /\ \A i \in 1 .. Len(last.out) : ~InCache(last.before, HashOf(last.out, i))
        /\ last.out = FirstOccurrences(last.records, last.before)

\* a batch of two different records with one hash, next to a cached hash
C5_Witness ==
    /\ last.op = "filter_duplicates"
    /\ Len(last.records) = 2
    /\ last.records[1] # last.records[2]
    /\ HashOf(last.records, 1) = HashOf(last.records, 2)
    /\ last.out = <<last.records[1]>>
    /\ last.before # {}

\* C6: for a batch with two records of one DedupKey, filter_duplicates returns
\* exactly one record of that key and looks that key up in the store exactly
\* once.
C6_TwoLevelDedup ==
    last.op = "filter_duplicates" =>
        \A i, j \in 1 .. Len(last.records) :
            (i < j /\ HashOf(last.records, i) = HashOf(last.records, j)) =>
                /\ CountHash(last.out, HashOf(last.records, i)) = 1
                /\ Count(last.lookups, HashOf(last.records, i)) = 1

\* C7: add_record of a hash that is already cached sets last_seen to the
\* current time and overwrites the stored remote id only if one is supplied;
\* without one the stored remote id stays.
C7_AddRecordUpsert ==
    (last.op = "add_record" /\ InCache(last.before, GenerateHash(TheRecord))) =>
        \A old \in last.before :
            old.record_hash = GenerateHash(TheRecord) =>
                [old EXCEPT !.last_seen = now,
                            !.feishu_record_id =
                                IF last.id # NoId THEN last.id ELSE @] \in cache

\* C8: for every date and every retention_days >= 0, cleanup_old_records
\* completes and deletes exactly the entries whose first_seen is older than
\* now - retention_days.
C8_RetentionCleanup ==
    last.op = "cleanup_old_records" =>
        /\ ~last.raised
        /\ cache = {row \in last.before :
                       ~(row.first_seen < now - last.days * TicksPerDay)}

\* C9: is_duplicate, add_record, filter_duplicates and mark_synced remove no
\* entry (the set of cached hashes never shrinks), and the cache holds at most
\* one entry per hash.
C9_NoRemovalButCleanup ==
    /\ last.op \in {"is_duplicate", "add_record", "filter_duplicates", "mark_synced"}
           => CacheHashes(last.before) \subseteq CacheHashes(cache)
    /\ \A r1, r2 \in cache : r1.record_hash = r2.record_hash => r1 = r2

\* a second add_record of a cached hash, at a later time, next to another entry
C9_Witness ==
    /\ last.op = "add_record"
    /\ InCache(last.before, GenerateHash(TheRecord))
    /\ \E row \in cache : row.first_seen < row.last_seen
    /\ Cardinality(cache) = 2

\* C10: is_duplicate returns TRUE exactly when an entry with the record's hash
\* exists and leaves the cache as it is; an entry comes to exist only by
\* add_record of its hash, does exist after it, and goes only by cleanup.
C10_IsDuplicateIff ==
    /\ last.op = "is_duplicate" =>
           /\ last.ret = (GenerateHash(TheRecord) \in CacheHashes(last.before))
           /\ cache = last.before
    /\ last.op = "add_record" =>
           CacheHashes(cache) = CacheHashes(last.before) \cup {GenerateHash(TheRecord)}
    /\ last.op \notin {"init", "add_record"} =>
           CacheHashes(cache) \subseteq CacheHashes(last.before)
    /\ last.op \notin {"init", "cleanup_old_records"} =>
           CacheHashes(last.before) \subseteq CacheHashes(cache)

\* is_duplicate answers TRUE for one cached hash while the other is absent
C10_Witness ==
    /\ last.op = "is_duplicate"
    /\ last.ret
    /\ Cardinality(CacheHashes(cache)) = 1

\* C11: after a pipeline run whose reconciliation succeeded, the cache entry
\* of every synced record holds the record_id of the remote row that carries
\* the record's fields.
C11_RemoteIdRegistered ==
    (last.op = "run" /\ last.ret /\ ~last.raised /\ last.result.failed = 0) =>
        \A i \in 1 .. Len(last.out) :
            \E row \in cache :
                /\ row.record_hash = HashOf(last.out, i)
                /\ row.feishu_record_id # NoId
                /\ \E k \in 1 .. Len(remote) :
                       /\ remote[k].record_id = row.feishu_record_id
                       /\ remote[k].fields = Stored(BuildFeishuRecord(last.out[i]))

\* the row of the table that carries the record as the program wrote it
Carries(row, data) == row.fields = Stored(BuildFeishuRecord(data))

\* C12: add_recruitment of a record that has a remote row with its key issues
\* an update of that row and no create; a second add_recruitment of the same
\* record finds the row the first one wrote, so it adds no row.
C12_SingleUpsert ==
    (last.op = "add_recruitment" /\ ~last.raised) =>
        /\ (\E k \in 1 .. Len(last.existing) :
                RowKey(last.existing[k]) = GetDuplicateKey(TheRecord))
               => /\ last.calls[2].endpoint = "update_record"
                  /\ Len(remote) = Len(last.existing)
        /\ (\E k \in 1 .. Len(last.existing) : Carries(last.existing[k], TheRecord))
               => /\ last.calls[2].endpoint = "update_record"
                  /\ Len(remote) = Len(last.existing)

\* C19: the key _build_existing_map gives the remote row written for a record
\* equals the key _get_duplicate_key gives the record, so a record that has a
\* row written for it is queued for update, not for create.
C19_KeyRoundTrip ==
    (last.op = "add_recruitments" /\ ~last.raised) =>
        \A i \in 1 .. Len(last.records) :
            /\ RowKey([fields |-> Stored(BuildFeishuRecord(last.records[i]))])
                   = GetDuplicateKey(last.records[i])
            /\ (\E k \in 1 .. Len(last.existing) :
                    Carries(last.existing[k], last.records[i]))
                   => \A j \in 1 .. Len(last.to_create) :
                          last.to_create[j] # BuildFeishuRecord(last.records[i])

\* the value is missing, None, empty or white space only
Blank(record, field) ==
    LET value == Get(record, field, None)
    IN  IsNone(value) \/ (IsStr(value) /\ Strip(value[2]) = <<>>)

\* C13: clean_record of a record whose company_name or position is missing,
\* empty or white space only returns nothing and adds one to invalid, one to
\* processed and nothing to cleaned; of any other record it returns a record
\* and leaves invalid as it was.
C13_RequiredFieldGate ==
    last.op = "clean_record" =>
        IF Blank(TheRecord, "company_name") \/ Blank(TheRecord, "position")
        THEN /\ last.out = <<>>
             /\ cleaner_stats = [last.counters EXCEPT !.processed = @ + 1,
                                                      !.invalid = @ + 1]
        ELSE /\ Len(last.out) = 1
             /\ cleaner_stats.invalid = last.counters.invalid

\* a record with a company name and a position of white space is rejected
C13_Witness ==
    /\ last.op = "clean_record"
    /\ ~Blank(TheRecord, "company_name")
    /\ HasKey(TheRecord, "position")
    /\ IsStr(Get(TheRecord, "position", None))
    /\ Get(TheRecord, "position", None)[2] # <<>>
    /\ last.out = <<>>
    /\ cleaner_stats.invalid = 1

\* C15: normalize_record of a record that normalize_record returned for an
\* input in canonical field names returns that record again, field by field.
C15_Idempotent ==
    (last.op = "normalize_record" /\ last.ret) => last.out = last.records

\* C16: two field maps of one posting that differ in the order of their keys,
\* in white space inside text values or in the order of the city list
\* normalize to records with the same hash.
C16_HashDeterminism ==
    last.op = "hash_pair" => last.lookups[1] = last.lookups[2]

\* C20: _normalize_enum returns the default for a value that is not set; else
\* it takes the first element of a list and trims: an option is returned as
\* it is, any other text gives the first option in declared order that is
\* inside the text or has the text inside it, and the default when there is
\* none; the result is always one of the options.
C20_EnumResolution ==
    last.op = "_normalize_enum" =>
        LET value == last.records[1]
            options == last.args[1]
            default == last.args[2]
            result == last.out[1]
            first == IF IsList(value) /\ value[2] # <<>> THEN value[2][1] ELSE value
            text == Strip(StrOf(first))
            matches == {k \in 1 .. Len(options) :
                           IsSubstring(options[k], text) \/ IsSubstring(text, options[k])}
        IN  /\ IsStr(result)
            /\ result[2] \in Range(options)
            /\ IF IsNone(value) \/ value = Str(<<>>) \/ value = List(<<>>)
               THEN result[2] = default
               ELSE IF \E k \in 1 .. Len(options) : options[k] = text
               THEN result[2] = text
               ELSE IF matches # {}
               THEN \E k \in matches : /\ result[2] = options[k]
                                        /\ \A j \in matches : k <= j
               ELSE result[2] = default

\* an option that has an earlier option inside it is returned as it is
C20_Witness ==
    /\ last.op = "_normalize_enum"
    /\ last.args[1] = EDUCATION_OPTIONS
    /\ last.records[1] = Str(<<" ">> \o EDUCATION_OPTIONS[5] \o <<" ">>)
    /\ last.out = <<Str(EDUCATION_OPTIONS[5])>>

\* C17: the first add_record of a hash creates its entry with first_seen and
\* last_seen at the current time; add_record and mark_synced leave the
\* first_seen of every entry as it was; add_record of a cached hash sets
\* last_seen to the current time; first_seen <= last_seen in every entry.
C17_EntryLifeCycle ==
    /\ \A row \in cache : row.first_seen <= row.last_seen
    /\ last.op \in {"add_record", "mark_synced"} =>
           \A old \in last.before :
               \E row \in cache : /\ row.record_hash = old.record_hash
                                  /\ row.first_seen = old.first_seen
    /\ last.op = "mark_synced" =>
           \A old \in last.before :
               \E row \in cache : /\ row.record_hash = old.record_hash
                                  /\ row.last_seen = old.last_seen
    /\ last.op = "add_record" =>
           \E row \in cache :
               /\ row.record_hash = GenerateHash(TheRecord)
               /\ row.last_seen = now
               /\ ~InCache(last.before, GenerateHash(TheRecord)) => row.first_seen = now

\* an entry seen again at a later time, then marked as synced
C17_Witness ==
    /\ last.op = "mark_synced"
    /\ \E row \in cache : /\ row.record_hash = GenerateHash(TheRecord)
                           /\ row.first_seen < row.last_seen
                           /\ row.feishu_record_id = last.id

CallsTo(endpoint) == SelectSeq(last.calls, LAMBDA call : call.endpoint = endpoint)

IsPrefix(s, t) == Len(s) <= Len(t) /\ s = SubSeq(t, 1, Len(s))

\* C18: add_recruitments fetches first and sends every create chunk before
\* the first update chunk; the request that raises is the last one it sends:
\* after a failed fetch nothing is created or updated, after a failed create
\* chunk no later create chunk and no update chunk is sent, after a failed
\* update chunk no later update chunk is sent.
C18_AbortOnFailure ==
    last.op = "add_recruitments" =>
        /\ last.calls # <<>>
        /\ \A k \in 1 .. Len(last.calls) : (last.calls[k].endpoint = "records") = (k = 1)
        /\ \A i, j \in 1 .. Len(last.calls) :
               (i < j /\ last.calls[i].endpoint = "batch_update")
                   => last.calls[j].endpoint = "batch_update"
        /\ IsPrefix(Flatten(CallsTo("batch_create")), last.to_create)
        /\ IsPrefix(Flatten(CallsTo("batch_update")), last.to_update)
        /\ CallsTo("batch_update") # <<>>
               => Flatten(CallsTo("batch_create")) = last.to_create
        /\ last.raised
               => remote = Store(last.existing,
                                 SubSeq(last.calls, 1, Len(last.calls) - 1), 1)
        /\ ~last.raised
               => /\ Flatten(CallsTo("batch_create")) = last.to_create
                  /\ Flatten(CallsTo("batch_update")) = last.to_update
                  /\ remote = Store(last.existing,
                                    AcceptedRequests(last.calls, last.rejected), 1)

\* the first of two create chunks raises while an update is queued
C18_Witness ==
    /\ last.op = "add_recruitments"
    /\ last.raised
    /\ Len(last.to_create) = batch_size + 1
    /\ Len(last.to_update) = 1
    /\ Len(last.calls) = 2
    /\ remote = last.existing

\* the text is not empty after trimming
NotBlank(text) == Strip(text) # <<>>

\* C14: in a run of the job every record filter_duplicates is given, every
\* record handed to the reconciler and every record in the cache has a
\* company_name and a position that are not empty after trimming.
C14_RequiredFieldsDownstream ==
    /\ last.op = "run" =>
           /\ \A i \in 1 .. Len(last.records) :
                  NotBlank(last.records[i].company_name)
                  /\ NotBlank(last.records[i].position)
           /\ \A i \in 1 .. Len(last.out) :
                  NotBlank(last.out[i].company_name) /\ NotBlank(last.out[i].position)
           /\ \A k \in 1 .. Len(last.calls) :
                  last.calls[k].endpoint = "batch_create" =>
                      \A j \in 1 .. Len(last.calls[k].records) :
                          \E i \in 1 .. Len(last.out) :
                              last.calls[k].records[j] = BuildFeishuRecord(last.out[i])
    /\ \A row \in cache : NotBlank(row.record_hash[1]) /\ NotBlank(row.record_hash[2])

\* a run that fetched a record without a company and a record with both
\* fields: one record reached filter_duplicates and is now in the cache
C14_Witness ==
    /\ last.op = "run"
    /\ Len(last.args) = 2
    /\ \E i \in 1 .. 2 : ~HasKey(MapKeys(last.args[i], 1, <<>>), "company_name")
    /\ Len(last.records) = 1
    /\ Len(last.out) = 1
    /\ \E row \in cache \ last.before :
           row.record_hash = GenerateHash(last.out[1])

\* the value is a text that none of the formats parses
Unparsed(value, formats) ==
    IsStr(value) /\ \A k \in 1 .. Len(formats) : Strptime(value[2], formats[k]) < 0

\* C21: _normalize_date always returns a datetime, and the current time for a
\* value that is None, that is a text none of its formats parses, or that is
\* neither a datetime nor a text; _clean_date returns None for such a value
\* (with its own formats), whatever the clock reads.
C21_DateDefaults ==
    LET NoDate(value, formats) ==
            \/ IsNone(value)
            \/ Unparsed(value, formats)
            \/ ~(IsStr(value) \/ IsDatetime(value))
    IN  /\ last.op = "_normalize_date" =>
               /\ IsDatetime(last.out[1])
               /\ (NoDate(last.records[1], NormalizeDateFormats)
                      => last.out[1] = Datetime(now))
        /\ last.op = "_clean_date" =>
               (NoDate(last.records[1], CleanDateFormats) => IsNone(last.out[1]))

\* a text that is no date, normalized after the clock has moved
C21_Witness ==
    /\ last.op = "_normalize_date"
    /\ last.records[1] = Str(<<"a">>)
    /\ now > 0
    /\ last.out[1] = Datetime(now)

\* C22: the city of a record normalize_record or clean_record returns holds
\* no blank element and no city twice.
C22_CitySet ==
    (last.op \in {"normalize_record", "clean_record"} /\ last.out # <<>>) =>
        LET city == Get(last.out[1], "city", List(<<>>))[2]
        IN  /\ \A i \in 1 .. Len(city) : IsStr(city[i]) /\ Strip(city[i][2]) # <<>>
            /\ \A i, j \in 1 .. Len(city) : i # j => city[i] # city[j]

\* the table has a row with the key of the record or with the fields the
\* program writes for it
HasRow(rows, data) ==
    \E k \in 1 .. Len(rows) :
        Carries(rows[k], data) \/ RowKey(rows[k]) = GetDuplicateKey(data)

\* C23: when the posting is delivered on every run and from some run on no
\* remote request raises, the table eventually has a row for the posting.
C23_EventualSync ==
    <>[](last.op = "run" => ~last.raised) => <>HasRow(remote, ThePosting)

\* C24: from an empty table on, after any runs of the job and any cache
\* cleanups the table has at most one row per DedupKey.
C24_RemoteUniqueness == UniqueRows(remote)

\* C25: a run that fetches the undated posting when the cache holds the entry
\* an earlier run made for it on another day gives the posting the hash of
\* that entry, and filter_duplicates suppresses it.
C25_UndatedSuppressed ==
    (/\ last.op = "run"
     /\ last.args = <<UndatedPosting>>
     /\ \E row \in last.before : Day(row.first_seen) # Day(now)) =>
        /\ \A row \in last.before : row.record_hash = GenerateHash(last.records[1])
        /\ last.out = <<>>

\* the closed option set of an enum field
OptionsOf(field) ==
    CASE field = "company_type" -> COMPANY_TYPE_OPTIONS
      [] field = "industry" -> INDUSTRY_OPTIONS
      [] field = "education" -> EDUCATION_OPTIONS

\* C26: clean_record of a record whose company_type, industry and education
\* are options of their sets, as normalize_record leaves them, returns the
\* three values unchanged.
C26_CleanerKeepsEnums ==
    (/\ last.op = "clean_record"
     /\ last.out # <<>>
     /\ \A field \in {"company_type", "industry", "education"} :
            LET value == Get(last.records[1], field, None)
            IN  IsStr(value) /\ value[2] \in Range(OptionsOf(field))) =>
        \A field \in {"company_type", "industry", "education"} :
            Get(last.out[1], field, None) = Get(last.records[1], field, None)

\* C27: add_recruitments reports a created count above zero only if the store
\* accepted every create chunk it was sent, and an updated count above zero
\* only if it accepted every update chunk: no chunk raised and none was
\* answered with a non-zero code.
C27_CountsReflectAcceptance ==
    last.op = "add_recruitments" =>
        LET accepted(k) == /\ k # last.rejected
                           /\ ~(last.raised /\ k = Len(last.calls))
        IN  /\ last.result.created > 0 =>
                   \A k \in 1 .. Len(last.calls) :
                       last.calls[k].endpoint = "batch_create" => accepted(k)
            /\ last.result.updated > 0 =>
                   \A k \in 1 .. Len(last.calls) :
                       last.calls[k].endpoint = "batch_update" => accepted(k)

\* C28: normalize_record returns a batch that is one of the nine labels of
\* batch_keywords as it is, and a text with no label in it trimmed.
C28_BatchLabels ==
    (/\ last.op = "normalize_record"
     /\ IsStr(Get(last.records[1], "batch", None))) =>
        LET text == Get(last.records[1], "batch", None)[2]
            result == Get(last.out[1], "batch", None)
        IN  /\ text \in Range(batch_keywords) => result = Str(text)
            /\ (/\ Strip(text) # <<>>
                /\ \A k \in 1 .. Len(batch_keywords) : ~IsSubstring(batch_keywords[k], text))
                   => result = Str(Strip(text))

\* C29: whatever is_duplicate, filter_duplicates and reset_stats calls were
\* made since the Deduplicator was built, checked == duplicates + unique.
C29_DedupCounters == stats.checked = stats.duplicates + stats.unique

====
